---- MODULE Spec2Model ----
(***************************************************************************)
(* A model of pyberryimu's accelerometer calibration                      *)
(* (pyberryimu/calibration/standard.py, class StandardCalibration) and of *)
(* the part of the BerryIMU client it reads samples from.                 *)
(*                                                                         *)
(* Numbers.  Python floats are modelled as exact rationals <<n, d>> with  *)
(* d > 0 in lowest terms; the extended values a numpy division can yield  *)
(* (inf, -inf, nan) are <<1, 0>>, <<-1, 0>> and <<0, 0>>.  The register    *)
(* bytes and the values read from them are integers.                       *)
(* None is the empty tuple <<>> for the                                    *)
(* array-valued attributes and the string "None" for the opaque ones.     *)
(***************************************************************************)
EXTENDS Integers, Sequences, FiniteSets, TLC

VARIABLES
    \* ---- attributes of the StandardCalibration object -------------------
    pyberryimu_version,        \* self.pyberryimu_version
    berryimu_settings,         \* self.berryimu_settings
    acc_zero_g,                \* self.acc_zero_g            (<<>> is None)
    acc_sensitivity,           \* self.acc_sensitivity       (<<>> is None)
    acc_scale_factor_matrix,   \* self.acc_scale_factor_matrix
    acc_bias_vector,           \* self.acc_bias_vector
    gyro_zero,                 \* self.gyro_zero
    gyro_sensitivity,          \* self.gyro_sensitivity
    \* ---- the file at doc_path / save_path -------------------------------
    doc,                       \* <<>>: no file; <<d>>: the JSON document d
    \* ---- the call in progress, and the outcome of the last call ---------
    op,                        \* the method called last
    pc,                        \* position inside calibrate_accelerometer
    result,                    \* "return", or the exception raised
    retval,                    \* the value returned (<<>>: none)
    client_called,             \* the last call used the client
    \* ---- locals of _do_six_point_one_g_calibration ----------------------
    index, side, keep_waiting, a, this_axis_points, points,
    \* ---- local of _add_additional_points --------------------------------
    extra,
    \* ---- locals of _perform_calibration_optimisation --------------------
    nbr_points, n, x, last_x, gain, R_prior,
    \* ---- observation: compliant samples read in a row by the wait -------
    streak,
    \* ---- the BerryIMU client ---------------------------------------------
    bus,                       \* <<lo, hi>>: the bytes in a register pair
    value                      \* what _read returned last

obj == <<pyberryimu_version, berryimu_settings, acc_zero_g, acc_sensitivity,
         acc_scale_factor_matrix, acc_bias_vector, gyro_zero, gyro_sensitivity>>
call == <<op, pc, result, retval, client_called>>
sixpt == <<index, side, keep_waiting, a, this_axis_points, points, streak>>
solver == <<nbr_points, n, x, last_x, gain, R_prior>>
client == <<bus, value>>
vars == <<obj, doc, call, sixpt, extra, solver, client>>

-----------------------------------------------------------------------------
(* Rational arithmetic                                                     *)

Abs(i) == IF i < 0 THEN -i ELSE i

RECURSIVE GCD(_, _)
GCD(i, j) == IF j = 0 THEN i ELSE GCD(j, i % j)

\* the rational num/den (den # 0) in lowest terms with a positive denominator
Rat(num, den) ==
    LET g == GCD(Abs(num), Abs(den))
        s == IF den < 0 THEN -1 ELSE 1
    IN  <<(s * num) \div g, (s * den) \div g>>

Float(i) == <<i, 1>>
RAdd(p, q) == Rat(p[1] * q[2] + q[1] * p[2], p[2] * q[2])
RSub(p, q) == Rat(p[1] * q[2] - q[1] * p[2], p[2] * q[2])
RMul(p, q) == Rat(p[1] * q[1], p[2] * q[2])
RDiv(p, q) == Rat(p[1] * q[2], p[2] * q[1])
RLt(p, q) == p[1] * q[2] < q[1] * p[2]

None == <<>>
Vec3(i, j, k) == <<Float(i), Float(j), Float(k)>>
Eye3 == <<Vec3(1, 0, 0), Vec3(0, 1, 0), Vec3(0, 0, 1)>>

\* ndarray.tolist() / np.array(list, 'float') on a vector: the same numbers
tolist(v) == [i \in 1..Len(v) |-> v[i]]
\* ndarray.flatten().tolist() on a 3x3 matrix: 9 numbers, row-major
flatten(M) == [i \in 1..9 |-> M[((i - 1) \div 3) + 1][((i - 1) % 3) + 1]]
\* np.reshape(np.array(list, 'float'), (3, 3))
reshape(s) == [r \in 1..3 |-> [c \in 1..3 |-> s[3 * (r - 1) + c]]]
\* M.dot(v) for a 3x3 matrix and a 3-vector
dot(M, v) ==
    [r \in 1..3 |-> RAdd(RAdd(RMul(M[r][1], v[1]), RMul(M[r][2], v[2])),
                         RMul(M[r][3], v[3]))]


-----------------------------------------------------------------------------
(* Constants of the calibration procedure                                  *)

\* keep_waiting = 10: the compliant samples _wait_for_compliance asks for
KeepWaitingStart == 10
\* nbr_points < 9: the fewest points the optimisation accepts
MinPoints == 9
\* nbr_iterations = 200
nbr_iterations == 200
\* R_prior = 100000
R_prior0 == 100000
\* tolerance = 1e-9, as its reciprocal
ToleranceInv == 1000000000

\* x = np.array([5, 0.5, 0.5, 5, 0.5, 5, 0.5, 0.5, 0.5])
X0 ==
    <<Float(5), Rat(1, 2), Rat(1, 2), Float(5), Rat(1, 2), Float(5),
      Rat(1, 2), Rat(1, 2), Rat(1, 2)>>

\* gain = 1, held as the exponents <<i, j>> of gain = 0.99^i * 0.01^j
Gain0 == <<0, 0>>

\* The locals of a call that is over are gone: every new call starts from
\* these values.
NoLocals ==
    /\ index = 0
    /\ side = -1
    /\ keep_waiting = KeepWaitingStart
    /\ a = <<0, 0, 0>>
    /\ this_axis_points = <<>>
    /\ points = <<>>
    /\ streak = 0
    /\ extra = <<>>
    /\ nbr_points = 0
    /\ n = 0
    /\ x = X0
    /\ last_x = X0
    /\ gain = Gain0
    /\ R_prior = Float(R_prior0)

\* a new call: the locals take these values again
ResetLocals ==
    /\ index' = 0
    /\ side' = -1
    /\ keep_waiting' = KeepWaitingStart
    /\ a' = <<0, 0, 0>>
    /\ this_axis_points' = <<>>
    /\ points' = <<>>
    /\ streak' = 0
    /\ extra' = <<>>
    /\ nbr_points' = 0
    /\ n' = 0
    /\ x' = X0
    /\ last_x' = X0
    /\ gain' = Gain0
    /\ R_prior' = Float(R_prior0)

-----------------------------------------------------------------------------
(* The StandardCalibration object: construction, load, save, transform     *)

\* pyberryimu.version, the package's version tag
version == "v1"

AllSet ==
    /\ acc_zero_g # None
    /\ acc_sensitivity # None
    /\ acc_scale_factor_matrix # None
    /\ acc_bias_vector # None

AllUnset ==
    /\ acc_zero_g = None
    /\ acc_sensitivity = None
    /\ acc_scale_factor_matrix = None
    /\ acc_bias_vector = None

\* StandardCalibration.__init__
Constructed ==
    /\ pyberryimu_version = version
    /\ berryimu_settings = "None"
    /\ acc_zero_g = None
    /\ acc_sensitivity = None
    /\ acc_scale_factor_matrix = None
    /\ acc_bias_vector = None
    /\ gyro_zero = Vec3(0, 0, 0)
    /\ gyro_sensitivity = Vec3(1, 1, 1)

\* dict.get(key, default) on a parsed JSON object
DocGet(d, key, default) == IF key \in DOMAIN d THEN d[key] ELSE default

\* the keys save() writes at the top level of the document
SaveKeys == {"BerryIMU_settings", "accelerometer", "gyro"}

\* the keys load() looks up at the top level of the document
LoadKeys == {"pyberryimu_version", "BerryIMU_settings", "accelerometer", "gyroscope"}

\* the dict save() builds from the object
SaveDoc ==
    [BerryIMU_settings |-> berryimu_settings,
     accelerometer |-> [zero |-> tolist(acc_zero_g),
                        sensitivity |-> tolist(acc_sensitivity),
                        scale_factor |-> flatten(acc_scale_factor_matrix),
                        bias |-> tolist(acc_bias_vector)],
     gyro |-> [zero |-> tolist(gyro_zero),
               sensitivity |-> tolist(gyro_sensitivity)]]

\* save(): building the dict raises on a None attribute (None has no tolist
\* or flatten), which save() turns into PyBerryIMUError before the file is
\* opened; otherwise the dict is dumped to the file.
save ==
    /\ UNCHANGED client
    /\ pc = "idle"
    /\ op' = "save"
    /\ client_called' = FALSE
    /\ retval' = None
    /\ IF AllSet
         THEN doc' = <<SaveDoc>> /\ result' = "return"
         ELSE doc' = doc /\ result' = "PyBerryIMUError"
    /\ ResetLocals
    /\ UNCHANGED <<obj, pc>>

\* load(): IOError without a file; otherwise a new object whose attributes
\* are read from the document, each with its default.
load ==
    /\ UNCHANGED client
    /\ pc = "idle"
    /\ op' = "load"
    /\ client_called' = FALSE
    /\ retval' = None
    /\ IF doc = <<>>
         THEN result' = "IOError" /\ UNCHANGED obj
         ELSE LET d == doc[1]
                  acc_doc == DocGet(d, "accelerometer", <<>>)
                  gyro_doc == DocGet(d, "gyroscope", <<>>)
              IN  /\ result' = "return"
                  /\ berryimu_settings' = DocGet(d, "pyberryimu_version", version)
                  /\ pyberryimu_version' = DocGet(d, "BerryIMU_settings", "{}")
                  /\ acc_zero_g' = tolist(DocGet(acc_doc, "zero", Vec3(0, 0, 0)))
                  /\ acc_sensitivity' =
                         tolist(DocGet(acc_doc, "sensitivity", Vec3(1, 1, 1)))
                  /\ acc_scale_factor_matrix' =
                         reshape(DocGet(acc_doc, "scale_factor", flatten(Eye3)))
                  /\ acc_bias_vector' = tolist(DocGet(acc_doc, "bias", Vec3(0, 0, 0)))
                  /\ gyro_zero' = tolist(DocGet(gyro_doc, "zero", Vec3(0, 0, 0)))
                  /\ gyro_sensitivity' =
                         tolist(DocGet(gyro_doc, "sensitivity", Vec3(1, 1, 1)))
    /\ ResetLocals
    /\ UNCHANGED <<doc, pc>>

\* (acc_values - zero) * sensitivity, componentwise
Normalise(v, zero, sens) ==
    [i \in 1..3 |-> RMul(RSub(v[i], zero[i]), sens[i])]

VSub(v, w) == [i \in 1..3 |-> RSub(v[i], w[i])]

\* a tuple of integer readings taken into float arithmetic
AsFloats(v) == [i \in 1..3 |-> Float(v[i])]

\* a transform that skips the matrix stage when no matrix is set
TransformResultLenient(acc_values) ==
    IF acc_zero_g = None \/ acc_sensitivity = None
      THEN [exc |-> "TypeError", val |-> None]
    ELSE IF acc_scale_factor_matrix = None \/ acc_bias_vector = None
      THEN [exc |-> "return",
            val |-> Normalise(AsFloats(acc_values), acc_zero_g, acc_sensitivity)]
    ELSE [exc |-> "return",
          val |-> dot(acc_scale_factor_matrix,
                      VSub(Normalise(AsFloats(acc_values), acc_zero_g, acc_sensitivity),
                           acc_bias_vector))]

\* transform_accelerometer_values(acc_values): the exception raised on a
\* None attribute (arithmetic with None: TypeError; None.dot: AttributeError),
\* or the 3-tuple returned
TransformResult(acc_values) ==
    IF acc_zero_g = None \/ acc_sensitivity = None
      THEN [exc |-> "TypeError", val |-> None]
    ELSE IF acc_scale_factor_matrix = None
      THEN [exc |-> "AttributeError", val |-> None]
    ELSE IF acc_bias_vector = None
      THEN [exc |-> "TypeError", val |-> None]
    ELSE [exc |-> "return",
          val |-> dot(acc_scale_factor_matrix,
                      VSub(Normalise(AsFloats(acc_values), acc_zero_g, acc_sensitivity),
                           acc_bias_vector))]

transform_accelerometer_values(inputs) ==
    /\ UNCHANGED client
    /\ pc = "idle"
    /\ op' = "transform"
    /\ client_called' = FALSE
    /\ \E acc_values \in inputs :
         /\ result' = TransformResult(acc_values).exc
         /\ retval' = TransformResult(acc_values).val
    /\ ResetLocals
    /\ UNCHANGED <<obj, doc, pc>>

-----------------------------------------------------------------------------
(* calibrate_accelerometer: the six-point pass                             *)

\* client.get_settings(): opaque metadata of the device
ClientSettings == "cfg"

\* the guard left out
AlreadyCalibratedUnchecked == FALSE

\* if self.acc_zero_g is not None: raise PyBerryIMUError(...)
AlreadyCalibrated == acc_zero_g # None

\* calibrate_accelerometer, up to the first sample of the first wait: the
\* guard, client.get_settings(), and the start of the six-point pass
\* (points = [], zero and sensitivity set to np.zeros, index 0, side -1).
calibrate_accelerometer ==
    /\ UNCHANGED client
    /\ pc = "idle"
    /\ op' = "calibrate"
    /\ retval' = None
    /\ ResetLocals
    /\ UNCHANGED <<doc, pyberryimu_version, acc_scale_factor_matrix,
                   acc_bias_vector, gyro_zero, gyro_sensitivity>>
    /\ IF AlreadyCalibrated
         THEN /\ result' = "PyBerryIMUError"
              /\ client_called' = FALSE
              /\ UNCHANGED <<pc, berryimu_settings, acc_zero_g, acc_sensitivity>>
         ELSE /\ result' = "running"
              /\ client_called' = TRUE
              /\ berryimu_settings' = ClientSettings
              /\ acc_zero_g' = Vec3(0, 0, 0)
              /\ acc_sensitivity' = Vec3(0, 0, 0)
              /\ pc' = "wait"

\* cmp(v, w)
cmp(v, w) == IF v < w THEN -1 ELSE IF v > w THEN 1 ELSE 0

NormSq(v) == v[1] * v[1] + v[2] * v[2] + v[3] * v[3]

\* norm_diff < 0.05 with norm_diff = |abs(a[index]) - norm_a| / norm_a.
\* As norm_a >= abs(a[index]) this is 19 * norm_a < 20 * abs(a[index]),
\* compared here on the squares; for the zero vector norm_diff is nan and
\* the comparison is false.
NormDiffBelow(v, i) == 361 * NormSq(v) < 400 * v[i + 1] * v[i + 1]

\* only the sign is looked at, and a zero passes for either side
CompliantSignNotOpposite(v, i, sd) == cmp(v[i + 1], 0) # -sd

\* norm_diff < 0.05 and cmp(a[index], 0) == side
Compliant(v, i, sd) == NormDiffBelow(v, i) /\ cmp(v[i + 1], 0) = sd

\* the relative difference between |a[axis]| and the norm is below 5% and
\* the sign of a[axis] is the polarity asked for (what `streak` counts)
StableSample(v, i, sd) ==
    /\ NormSq(v) > 0
    /\ 361 * NormSq(v) < 400 * v[i + 1] * v[i + 1]
    /\ (sd = -1 => v[i + 1] < 0)
    /\ (sd = 1 => v[i + 1] > 0)

\* a non-compliant sample leaves the counter where it is
WaitCountNoReset(kw, v, i, sd) ==
    IF Compliant(v, i, sd) THEN kw - 1 ELSE kw

\* one pass of the while loop's body on the sample v: the new keep_waiting
WaitCount(kw, v, i, sd) ==
    IF Compliant(v, i, sd) THEN kw - 1 ELSE KeepWaitingStart

\* _wait_for_compliance: one iteration of `while keep_waiting > 0`
wait_for_compliance(samples) ==
    /\ UNCHANGED client
    /\ pc = "wait"
    /\ \E v \in samples :
         /\ a' = v
         /\ keep_waiting' = WaitCount(keep_waiting, v, index, side)
         /\ streak' = IF StableSample(v, index, side) THEN streak + 1 ELSE 0
    /\ pc' = IF keep_waiting' > 0 THEN "wait" ELSE "gather"
    /\ UNCHANGED <<obj, doc, op, result, retval, client_called, index, side,
                   this_axis_points, points, extra, solver>>

RMax(p, q) == IF RLt(p, q) THEN q ELSE p
RMin(p, q) == IF RLt(q, p) THEN q ELSE p

\* the half span (Max - Min) / 2 of the docstring instead of the midpoint
ZeroGHalfSpan(v_max, v_min) == RDiv(RSub(v_max, v_min), Float(2))

\* self.acc_zero_g[index] = (v_max + v_min) / 2
ZeroG(v_max, v_min) == RDiv(RAdd(v_max, v_min), Float(2))

\* self.acc_sensitivity[index] = 2 / (v_max - v_min)
Sensitivity(v_max, v_min) == RDiv(Float(2), RSub(v_max, v_min))

\* np.mean(acc_values, axis=0).tolist() of integer-valued readings
mean(m) == [i \in 1..3 |-> Float(m[i])]

\* The rest of the body of `for side in [-1, 1]` once the wait is over: the
\* operator presses Enter, 5 seconds of samples are averaged into a point
\* (means: the averages the client's samples can give), and after the second
\* side of an axis zero and sensitivity of that axis are set.  A zero span
\* raises ZeroDivisionError after acc_zero_g[index] was assigned.
do_six_point_one_g_calibration(means) ==
    /\ UNCHANGED client
    /\ pc = "gather"
    /\ \E m \in means :
         LET pt == mean(m)
             tap == Append(this_axis_points, pt[index + 1])
         IN  /\ points' = Append(points, pt)
             /\ IF side = -1
                  THEN /\ this_axis_points' = tap
                       /\ side' = 1
                       /\ pc' = "wait"
                       /\ UNCHANGED <<index, acc_zero_g, acc_sensitivity, result>>
                  ELSE LET v_max == RMax(tap[1], tap[2])
                           v_min == RMin(tap[1], tap[2])
                       IN  /\ acc_zero_g' =
                                  [acc_zero_g EXCEPT ![index + 1] = ZeroG(v_max, v_min)]
                           /\ this_axis_points' =
                                  IF v_max # v_min /\ index < 2 THEN <<>> ELSE tap
                           /\ IF v_max = v_min
                                THEN /\ result' = "ZeroDivisionError"
                                     /\ pc' = "idle"
                                     /\ UNCHANGED <<index, side, acc_sensitivity>>
                                ELSE /\ acc_sensitivity' =
                                            [acc_sensitivity EXCEPT
                                               ![index + 1] = Sensitivity(v_max, v_min)]
                                     /\ result' = result
                                     /\ IF index = 2
                                          THEN /\ pc' = "extra"
                                               /\ UNCHANGED <<index, side>>
                                          ELSE /\ pc' = "wait"
                                               /\ index' = index + 1
                                               /\ side' = -1
    /\ keep_waiting' = KeepWaitingStart
    /\ streak' = 0
    /\ UNCHANGED <<pyberryimu_version, berryimu_settings, acc_scale_factor_matrix,
                   acc_bias_vector, gyro_zero, gyro_sensitivity, doc, op, retval,
                   client_called, a, extra, solver>>

-----------------------------------------------------------------------------
(* _perform_calibration_optimisation                                       *)

\* the length check one point too lenient
TooFewPointsOffByOne(k) == k < MinPoints - 1

\* if nbr_points < 9: raise ValueError(...)
TooFewPoints(k) == k < MinPoints

\* optvec_to_M_and_b(v)[0]
optvec_to_M(v) == <<<<v[1], v[2], v[3]>>, <<v[2], v[4], v[5]>>, <<v[3], v[5], v[6]>>>>

\* optvec_to_M_and_b(v)[1]: v[6:]
optvec_to_b(v) == <<v[7], v[8], v[9]>>

\* One term of 2 * (x - last_x) / (x + last_x) in numpy's float arithmetic:
\* a zero denominator gives nan (0/0), inf or -inf, held as <<0, 0>>,
\* <<1, 0>> and <<-1, 0>>; a nan operand gives nan.
IsNan(p) == p = <<0, 0>>

ChangeRatio(xn, xo) ==
    IF IsNan(xn) \/ IsNan(xo) THEN <<0, 0>>
    ELSE LET num == RMul(Float(2), RSub(xn, xo))
             den == RAdd(xn, xo)
         IN  IF den[1] # 0 THEN RDiv(num, den)
             ELSE IF num[1] = 0 THEN <<0, 0>>
             ELSE IF num[1] > 0 THEN <<1, 0>>
             ELSE <<-1, 0>>

\* p > q on floats: false when either is nan
FGt(p, q) ==
    IF IsNan(p) \/ IsNan(q) THEN FALSE
    ELSE IF p[2] = 0 /\ q[2] = 0 THEN p[1] > q[1]
    ELSE p[1] * q[2] > q[1] * p[2]

\* Python's max() over a sequence: the first item, replaced by each later
\* item that compares greater
RECURSIVE PyMaxFrom(_, _, _)
PyMaxFrom(s, i, m) ==
    IF i > Len(s) THEN m
    ELSE PyMaxFrom(s, i + 1, IF FGt(s[i], m) THEN s[i] ELSE m)

PyMax(s) == PyMaxFrom(s, 2, s[1])

\* abs(p) <= tolerance on floats: false for nan, and for a rational k/d
\* it is k * 10^9 <= d
AbsLeqTolerance(p) ==
    /\ ~IsNan(p)
    /\ p[2] # 0
    /\ Abs(p[1]) <= p[2] \div ToleranceInv

\* abs(max(2 * (x - last_x) / (x + last_x))) <= tolerance
Converged(xn, xo) ==
    AbsLeqTolerance(PyMax([i \in 1..9 |-> ChangeRatio(xn[i], xo[i])]))

\* p <= q on floats: false when either is nan
FLeq(p, q) ==
    IF IsNan(p) \/ IsNan(q) THEN FALSE ELSE ~FGt(p, q)

\* The smallest power of damping = 0.01 a double holds above zero:
\* 0.01^161 = 1e-322 is 20 units of the smallest subnormal double, so
\* damping * gain rounds to 0.0 from there on.
MinDoublePower == 161

\* the double with exponents g is 0.0
GainIsZero(g) == g[2] > MinDoublePower

\* gain -= damping * gain (R_post <= R_prior), else gain *= damping, on
\* doubles: at 0.01^161 the term damping * gain is below half a unit and the
\* subtraction leaves gain as it is, and gain *= damping gives 0.0, which
\* both updates then keep.
NextGain(g, R_post, R_pr) ==
    IF FLeq(R_post, R_pr)
      THEN IF g[2] >= MinDoublePower THEN g ELSE <<g[1] + 1, g[2]>>
      ELSE IF GainIsZero(g) THEN g ELSE <<g[1], g[2] + 1>>

\* Entry of _perform_calibration_optimisation(pts): the length check, then
\* the initial values of gain, R_prior, x and last_x.
perform_calibration_optimisation(pts) ==
    /\ points' = pts
    /\ nbr_points' = Len(pts)
    /\ n' = 0
    /\ x' = X0
    /\ last_x' = X0
    /\ gain' = Gain0
    /\ R_prior' = Float(R_prior0)
    /\ IF TooFewPoints(Len(pts))
         THEN result' = "ValueError" /\ pc' = "idle"
         ELSE result' = "running" /\ pc' = "iterate"

\* x = np.array([nan] * 9): every parameter lost to nan
XNan == [i \in 1..9 |-> <<0, 0>>]

\* R[i] = error_function(M, b, points[i, :]) is nan when x holds nan, and
\* x -= gain * (D.dot(H)).T with D = J.T.dot(R) is all nan when R holds nan
NanSpreads(xo, xn, R_post) ==
    /\ (\E i \in 1..9 : IsNan(xo[i])) => IsNan(R_post)
    /\ IsNan(R_post) => xn = XNan

\* the matrix taken from last_x instead of x
StoredMFromLastX(xn, xo) == optvec_to_M(xo)

\* self.acc_scale_factor_matrix, self.acc_bias_vector = optvec_to_M_and_b(x)
\* in the converging iteration (xn: x, xo: last_x)
StoredM(xn, xo) == optvec_to_M(xn)
StoredB(xn, xo) == optvec_to_b(xn)

\* One pass of `for n in xrange(nbr_iterations)`.  The residuals, the
\* Jacobian and the Gauss-Newton step (D.dot(H)) are 9x9 real linear algebra
\* on the points and are not computed here: what the pass can give is drawn
\* from inv (np.linalg.inv succeeds or raises LinAlgError), xs (the updated
\* x) and rs (R_post, the residual norm).  What is kept of the arithmetic is
\* how nan spreads: R is computed from x, and the step from J.T.dot(R).
perform_calibration_optimisation_iteration(invs, xs, rs) ==
    /\ UNCHANGED client
    /\ pc = "iterate"
    /\ \E inv \in invs, xn \in xs, R_post \in rs :
         IF inv = "singular"
           THEN /\ result' = "LinAlgError"
                /\ pc' = "idle"
                /\ UNCHANGED <<acc_scale_factor_matrix, acc_bias_vector, n, x,
                               last_x, gain, R_prior>>
           ELSE /\ NanSpreads(x, xn, R_post)
                /\ x' = xn
                /\ gain' = NextGain(gain, R_post, R_prior)
                /\ IF Converged(xn, last_x)
                     THEN /\ acc_scale_factor_matrix' = StoredM(xn, last_x)
                          /\ acc_bias_vector' = StoredB(xn, last_x)
                          /\ result' = "return"
                          /\ pc' = "idle"
                          /\ UNCHANGED <<n, last_x, R_prior>>
                     ELSE /\ last_x' = xn
                          /\ R_prior' = R_post
                          /\ n' = n + 1
                          /\ pc' = IF n + 1 < nbr_iterations THEN "iterate" ELSE "idle"
                          /\ result' = IF n + 1 < nbr_iterations
                                         THEN "running" ELSE "return"
                          /\ UNCHANGED <<acc_scale_factor_matrix, acc_bias_vector>>
    /\ UNCHANGED <<pyberryimu_version, berryimu_settings, acc_zero_g,
                   acc_sensitivity, gyro_zero, gyro_sensitivity, doc, op, retval,
                   client_called, index, side, keep_waiting, a, this_axis_points,
                   points, streak, extra, nbr_points>>

\* main(): _perform_calibration_optimisation called directly on an array of
\* k points (here k copies of the normalised point pt)
main(counts, pts) ==
    /\ UNCHANGED client
    /\ pc = "idle"
    /\ op' = "solve"
    /\ retval' = None
    /\ client_called' = FALSE
    /\ \E k \in counts, pt \in pts : perform_calibration_optimisation([i \in 1..k |-> pt])
    /\ index' = 0
    /\ side' = -1
    /\ keep_waiting' = KeepWaitingStart
    /\ a' = <<0, 0, 0>>
    /\ this_axis_points' = <<>>
    /\ streak' = 0
    /\ extra' = <<>>
    /\ UNCHANGED <<obj, doc>>

-----------------------------------------------------------------------------
(* calibrate_accelerometer: the extra points, and the call of the solver   *)

\* The operator answers 'y': Enter, 5 seconds of samples averaged into one
\* more point.
add_additional_points_y(means, cap) ==
    /\ UNCHANGED client
    /\ pc = "extra"
    /\ Len(extra) < cap
    /\ \E m \in means : extra' = Append(extra, mean(m))
    /\ UNCHANGED <<obj, doc, call, sixpt, solver>>

\* The operator answers neither 'y' nor 'n': the prompt is shown again.
add_additional_points_other ==
    /\ pc = "extra"
    /\ UNCHANGED vars

\* The operator answers 'n': the loop breaks, and calibrate_accelerometer
\* goes on to normalise the points and call the solver.
add_additional_points_n ==
    /\ UNCHANGED client
    /\ pc = "extra"
    /\ perform_calibration_optimisation([i \in 1..(Len(points) + Len(extra)) |->
                      Normalise((points \o extra)[i], acc_zero_g, acc_sensitivity)])
    /\ UNCHANGED <<obj, doc, op, retval, client_called, index, side, keep_waiting,
                   a, this_axis_points, streak, extra>>

-----------------------------------------------------------------------------
(* BerryIMUClient._read                                                    *)

\* i | j on non-negative integers, bit by bit
RECURSIVE BitOr(_, _)
BitOr(i, j) ==
    IF i = 0 THEN j
    ELSE IF j = 0 THEN i
    ELSE (IF i % 2 = 1 \/ j % 2 = 1 THEN 1 ELSE 0) + 2 * BitOr(i \div 2, j \div 2)

\* i << k
ShiftLeft(i, k) == i * 2^k

\* the comparison taken with 32768 on the non-negative side
Signed16Inclusive(v) == IF v <= 32768 THEN v ELSE v - 65536

\* value if value < 32768 else value - 65536
Signed16(v) == IF v < 32768 THEN v ELSE v - 65536

\* _read(address, register_low_bit, register_high_bit): the two bytes are
\* read from the bus, joined and returned as a signed number
read ==
    /\ pc = "idle"
    /\ op' = "read"
    /\ result' = "return"
    /\ retval' = None
    /\ client_called' = TRUE
    /\ value' = Signed16(BitOr(bus[1], ShiftLeft(bus[2], 8)))
    /\ UNCHANGED <<obj, doc, pc, sixpt, extra, solver, bus>>

-----------------------------------------------------------------------------
(* Inputs and bounds                                                       *)

\* the most extra points the operator adds in one run
MaxExtra == 4
\* the most points handed to the solver in a direct call
MaxPoints == 10

\* samples client.read_accelerometer() returns during a wait: the six
\* axis-aligned poses, two tilted poses either side of the 5% limit, and the
\* all-zero reading
Samples ==
    {<<-100, 0, 0>>, <<100, 0, 0>>, <<0, -100, 0>>, <<0, 100, 0>>,
     <<0, 0, -100>>, <<0, 0, 100>>, <<100, 32, 0>>, <<100, 33, 0>>, <<0, 0, 0>>}

\* 5-second averages recorded in the six-point pass
Means == {<<1000, 1200, 1000>>, <<-1000, -800, -500>>}

\* 5-second averages recorded as extra points
ExtraMeans == {<<700, 900, 0>>}

\* raw readings handed to transform_accelerometer_values
RawValues == {<<1000, 200, 0>>, <<0, 0, 0>>}

\* the ideal result M = I, b = 0
XIdent ==
    <<Float(1), Float(0), Float(0), Float(1), Float(0), Float(1),
      Float(0), Float(0), Float(0)>>

\* X0 with its first parameter lowered
XLower == [X0 EXCEPT ![1] = Float(4)]

\* X0 with the sign of its seventh parameter (the first bias) reversed
XNeg == [X0 EXCEPT ![7] = Rat(-1, 2)]

\* X0 with its first parameter at zero
XZeroFirst == [X0 EXCEPT ![1] = Float(0)]

\* a document written from to_json() by an earlier run
OldDoc ==
    [pyberryimu_version |-> "v0",
     BerryIMU_settings |-> "cfg0",
     accelerometer |-> [zero |-> Vec3(200, 0, 0),
                        sensitivity |-> <<Rat(1, 1000), Rat(1, 1000), Rat(1, 1000)>>,
                        scale_factor |-> flatten(Eye3),
                        bias |-> Vec3(0, 0, 0)],
     gyro |-> [zero |-> Vec3(0, 0, 0), sensitivity |-> Vec3(1, 1, 1)]]

-----------------------------------------------------------------------------
(* The calibration object through its life: constructed, then any sequence *)
(* of calibrate_accelerometer, load, save and transform calls.             *)

Init ==
    /\ Constructed
    /\ doc \in {<<>>, <<OldDoc>>}
    /\ op = "init"
    /\ pc = "idle"
    /\ result = "return"
    /\ retval = None
    /\ client_called = FALSE
    /\ NoLocals
    /\ bus = <<0, 0>>
    /\ value = 0

Next ==
    \/ calibrate_accelerometer
    \/ wait_for_compliance(Samples)
    \/ do_six_point_one_g_calibration(Means)
    \/ add_additional_points_y(ExtraMeans, MaxExtra)
    \/ add_additional_points_other
    \/ add_additional_points_n
    \/ perform_calibration_optimisation_iteration({"ok", "singular"}, {X0, XIdent}, {Float(1)})
    \/ load
    \/ save
    \/ transform_accelerometer_values(RawValues)

Spec == Init /\ [][Next]_vars

-----------------------------------------------------------------------------
(* The solver called directly, as main() does, on an object whose zero and *)
(* sensitivity are set; the object may also hold loaded parameters.        *)

InitSolver ==
    /\ pyberryimu_version = version
    /\ berryimu_settings = "None"
    /\ acc_zero_g = Vec3(0, 0, 0)
    /\ acc_sensitivity = <<Rat(1, 1000), Rat(1, 1000), Rat(1, 1000)>>
    /\ \/ acc_scale_factor_matrix = None /\ acc_bias_vector = None
       \/ acc_scale_factor_matrix = Eye3 /\ acc_bias_vector = Vec3(0, 0, 0)
    /\ gyro_zero = Vec3(0, 0, 0)
    /\ gyro_sensitivity = Vec3(1, 1, 1)
    /\ doc = <<>>
    /\ op = "init"
    /\ pc = "idle"
    /\ result = "return"
    /\ retval = None
    /\ client_called = FALSE
    /\ NoLocals
    /\ bus = <<0, 0>>
    /\ value = 0

NextSolver ==
    \/ main(0..MaxPoints, {Vec3(1, 0, 0), <<Rat(7, 10), Rat(7, 10), Float(0)>>})
    \/ perform_calibration_optimisation_iteration({"ok", "singular"}, {X0, XIdent, XLower}, {Float(1)})

SpecSolver == InitSolver /\ [][NextSolver]_vars

-----------------------------------------------------------------------------
(* The solver on 9 points, with updates of x that bring x + last_x to zero *)
(* in some parameter.                                                      *)

NextConvergence ==
    \/ main({MinPoints}, {Vec3(1, 0, 0)})
    \/ perform_calibration_optimisation_iteration(
           {"ok"}, {X0, XIdent, XNeg, XZeroFirst}, {Float(1)})

SpecConvergence == InitSolver /\ [][NextConvergence]_vars

-----------------------------------------------------------------------------
(* The solver on 9 points, with residual norms that fall, rise, or are nan *)
(* (points or parameters that hold nan).                                   *)

NextDamping ==
    \/ main({MinPoints}, {Vec3(1, 0, 0)})
    \/ perform_calibration_optimisation_iteration(
           {"ok"}, {X0, XIdent, XNan}, {Float(1), Float(2), <<0, 0>>})

SpecDamping == InitSolver /\ [][NextDamping]_vars

-----------------------------------------------------------------------------
(* One _read of a register pair that holds any two bytes.                  *)

\* what bus.read_byte_data returns
Byte == 0..255

InitRead ==
    /\ Constructed
    /\ doc = <<>>
    /\ op = "init"
    /\ pc = "idle"
    /\ result = "return"
    /\ retval = None
    /\ client_called = FALSE
    /\ NoLocals
    /\ bus \in Byte \X Byte
    /\ value = 0

NextRead == read

SpecRead == InitRead /\ [][NextRead]_vars

-----------------------------------------------------------------------------
(* Properties                                                              *)

\* C1: a calibrate_accelerometer call on an object whose parameters are all
\* set ends at once in PyBerryIMUError ("already calibrated"); zero,
\* sensitivity, scale-factor matrix, bias vector and the stored settings keep
\* their values and the client is not used.
C1_CalibrateOnPopulatedRejected ==
    [][(pc = "idle" /\ AllSet /\ op' = "calibrate")
         => /\ pc' = "idle"
            /\ result' = "PyBerryIMUError"
            /\ client_called' = FALSE
            /\ UNCHANGED <<acc_zero_g, acc_sensitivity, acc_scale_factor_matrix,
                           acc_bias_vector, berryimu_settings>>]_vars

C1_Witness ==
    /\ op = "calibrate"
    /\ result = "PyBerryIMUError"
    /\ AllSet
    /\ ~client_called

\* C2: a solver call on fewer than 9 points ends in ValueError with no
\* iteration run (n = 0, x, last_x and gain at their initial values),
\* whatever the points and the object are.
C2_FewPointsRejectedBeforeIterating ==
    (op = "solve" /\ nbr_points < 9)
        => /\ pc = "idle"
           /\ result = "ValueError"
           /\ n = 0
           /\ x = X0
           /\ last_x = X0
           /\ gain = Gain0

C2_Witness ==
    /\ op = "solve"
    /\ nbr_points = 8
    /\ result = "ValueError"

\* C3: a solver call whose 200 iterations all fail the convergence test ends
\* in an error.
C3_NonConvergenceIsAnError ==
    (pc = "idle" /\ n = nbr_iterations) => result # "return"

\* C4: the solver writes the scale-factor matrix and the bias vector only in
\* an iteration whose convergence test passed, both from that iteration's x;
\* every other step of a solver run (the length check, a failed inversion, an
\* iteration that did not converge, the last of the 200) leaves both as they
\* were.
C4_ParametersWrittenOnlyOnConvergence ==
    [][/\ (acc_scale_factor_matrix' # acc_scale_factor_matrix
             \/ acc_bias_vector' # acc_bias_vector)
          => /\ pc = "iterate"
             /\ Converged(x', last_x)
             /\ result' = "return"
       /\ (pc = "iterate" /\ result' = "return" /\ n' < nbr_iterations)
          => /\ acc_scale_factor_matrix' =
                   <<<<x'[1], x'[2], x'[3]>>, <<x'[2], x'[4], x'[5]>>,
                     <<x'[3], x'[5], x'[6]>>>>
             /\ acc_bias_vector' = <<x'[7], x'[8], x'[9]>>
       /\ (result' \in {"ValueError", "LinAlgError"} \/ n' = nbr_iterations)
          => UNCHANGED <<acc_scale_factor_matrix, acc_bias_vector>>]_vars

C4_Witness ==
    /\ op = "solve"
    /\ pc = "idle"
    /\ result = "return"
    /\ n > 0
    /\ n < nbr_iterations
    /\ x # X0
    /\ acc_scale_factor_matrix = optvec_to_M(x)
    /\ acc_bias_vector = optvec_to_b(x)

\* C5: a calibrate_accelerometer run that fails (too few points, singular
\* system) leaves the four parameters unset, and one that returns leaves all
\* four set.
C5_OnlySuccessPopulates ==
    /\ (pc = "idle" /\ op = "calibrate" /\ result \in {"ValueError", "LinAlgError"})
          => AllUnset
    /\ (pc = "idle" /\ op = "calibrate" /\ result = "return") => AllSet

\* C6: transform_accelerometer_values returns a 3-vector exactly when zero,
\* sensitivity, scale-factor matrix and bias vector are all set; otherwise it
\* ends in an error and returns nothing.
C6_TransformNeedsParameters ==
    op = "transform"
        => /\ AllSet <=> (result = "return" /\ Len(retval) = 3)
           /\ ~AllSet => (result \in {"TypeError", "AttributeError"} /\ retval = None)

C6_Witness ==
    /\ op = "transform"
    /\ acc_zero_g # None
    /\ acc_scale_factor_matrix = None
    /\ result = "AttributeError"

\* C7: when calibrate_accelerometer calls the solver, at least 3 extra points
\* were added and the point set holds at least 9 points.
C7_SolverGetsNinePoints ==
    (op = "calibrate" /\ (pc = "iterate" \/ (pc = "idle" /\ result # "PyBerryIMUError"
                                               /\ result # "ZeroDivisionError")))
        => (Len(extra) >= 3 /\ nbr_points >= 9)

\* C8: load() of the file a populated object was saved to gives an object
\* with the same zero, sensitivity, scale-factor matrix, bias, version tag and
\* device settings, and load() reads the keys save() writes.
C8_SaveLoadRoundTrip ==
    [][(pc = "idle" /\ AllSet /\ doc = <<SaveDoc>> /\ op' = "load")
         => /\ UNCHANGED <<acc_zero_g, acc_sensitivity, acc_scale_factor_matrix,
                           acc_bias_vector, pyberryimu_version, berryimu_settings>>
            /\ LoadKeys = SaveKeys]_vars

\* the two values recorded on axis i (0-based): the larger and the smaller
AxisMax(i) ==
    IF RLt(points[2 * i + 1][i + 1], points[2 * i + 2][i + 1])
      THEN points[2 * i + 2][i + 1] ELSE points[2 * i + 1][i + 1]

AxisMin(i) ==
    IF RLt(points[2 * i + 1][i + 1], points[2 * i + 2][i + 1])
      THEN points[2 * i + 1][i + 1] ELSE points[2 * i + 2][i + 1]

\* both sides of axis i are recorded and its zero and sensitivity assigned
\* (the recorded points are still the raw ones)
AxisDone(i) ==
    /\ op = "calibrate"
    /\ pc \in {"wait", "gather", "extra"}
    /\ (index > i \/ pc = "extra")

C10_WaitCountsUnbrokenStreak ==
    /\ keep_waiting \in 0..10
    /\ pc = "wait" => (keep_waiting = 10 - streak /\ keep_waiting > 0)
    /\ pc = "gather" => (keep_waiting = 0 /\ streak = 10)

C10_Witness ==
    /\ pc = "gather"
    /\ keep_waiting = 0
    /\ streak = 10
    /\ a = <<100, 32, 0>>

\* the relative change 2 * (xn - xo) / (xn + xo) of one parameter is defined
\* (xn + xo is not zero) and its magnitude is above the tolerance
ChangeAboveTolerance(xn, xo) ==
    /\ RAdd(xn, xo)[1] # 0
    /\ ~AbsLeqTolerance(ChangeRatio(xn, xo))

\* C11: the convergence test does not pass in an iteration where some
\* parameter's relative change |2 * (x_new - x_old) / (x_new + x_old)| is above
\* the tolerance, whatever the signs of the 9 changes.
C11_NoLargeChangeWhenAccepted ==
    [][(pc = "iterate" /\ pc' = "idle" /\ result' = "return" /\ n' = n)
         => \A i \in 1..9 : ~ChangeAboveTolerance(x'[i], last_x[i])]_vars

\* C12: an iteration in which the convergence test passes has no parameter
\* with x_new + x_old = 0 other than one whose old and new values are both
\* exactly zero.
C12_ZeroSumAcceptedOnlyIfBothZero ==
    [][(pc = "iterate" /\ pc' = "idle" /\ result' = "return" /\ n' = n)
         => \A i \in 1..9 :
               RAdd(x'[i], last_x[i])[1] = 0
                  => (x'[i] = Float(0) /\ last_x[i] = Float(0))]_vars

C14_ZeroOnAxisResetsWait ==
    [][(pc = "wait" /\ a'[index + 1] = 0)
         => (keep_waiting' = KeepWaitingStart /\ pc' = "wait")]_vars

\* the all-zero sample was read while waiting for the y axis to point up
C14_Witness ==
    /\ op = "calibrate"
    /\ pc = "wait"
    /\ index = 1
    /\ side = 1
    /\ a = <<0, 0, 0>>
    /\ keep_waiting = KeepWaitingStart

\* C15: for register bytes lo and hi, _read returns a number in
\* -32768..32767 that is congruent to lo + 256 * hi modulo 65536 and is
\* negative exactly when hi >= 128.
C15_ReadIsTwosComplement ==
    op = "read"
        => /\ value \in -32768..32767
           /\ (value - (bus[1] + 256 * bus[2])) % 65536 = 0
           /\ value < 0 <=> bus[2] >= 128

\* the most negative reading: lo = 0, hi = 128
C15_Witness ==
    /\ op = "read"
    /\ bus = <<0, 128>>
    /\ value = -32768

=============================================================================
